---- MODULE Spec2Model ----
(***************************************************************************)
(* Hunger-Wings: retrieval-augmented generation over a Chroma collection.  *)
(*   - the query path: api.get_report -> BiologySemanticAgent.generate     *)
(*   - the batch ingestion loop of Scripts/Procesamiento.py                *)
(*   - the citation map loader of Scripts/Prueba_JSON.py                   *)
(* Python strings that the code takes apart (paths, titles, links) are     *)
(* sequences of one-character strings; Python None is the value None.      *)
(***************************************************************************)
EXTENDS Integers, Sequences, FiniteSets, TLC

\* ------------------------------------------------------------------ bounds
MaxK == 2
MaxStored == 2
MaxFiles == 2
MaxBlocks == 2
BlockLen == 256
MaxRuns == 2
MaxRows == 2
MaxMessages == 5

\* ------------------------------------------------------- python helpers
None == [type |-> "null"]

DictGet(d, key, default) == IF key \in DOMAIN d THEN d[key] ELSE default

Min(a, b) == IF a <= b THEN a ELSE b

SetMin(S) == CHOOSE x \in S : \A y \in S : x <= y
SetMax(S) == CHOOSE x \in S : \A y \in S : x >= y

\* a Python str held in a field that may also hold None
Str(chars) == [type |-> "str", chars |-> chars]

IsSpace(c) == c \in {" ", "\n", "\t"}

\* index of the first character from i on that is no whitespace, Len(s) + 1 if none
RECURSIVE SkipSpaces(_, _)
SkipSpaces(s, i) == IF i <= Len(s) /\ IsSpace(s[i]) THEN SkipSpaces(s, i + 1) ELSE i

\* index of the last character up to j that is no whitespace, 0 if none
RECURSIVE SkipSpacesBack(_, _)
SkipSpacesBack(s, j) == IF j >= 1 /\ IsSpace(s[j]) THEN SkipSpacesBack(s, j - 1) ELSE j

\* str.strip()
strip(s) == SubSeq(s, SkipSpaces(s, 1), SkipSpacesBack(s, Len(s)))

\* os.sep and os.altsep of the platform the script runs on
PathSeps(os) == IF os = "nt" THEN {"\\", "/"} ELSE {"/"}
os_sep(os) == IF os = "nt" THEN "\\" ELSE "/"

LastIndex(p, chars) ==
    LET at == {i \in 1..Len(p) : p[i] \in chars}
    IN IF at = {} THEN 0 ELSE SetMax(at)

\* os.path.basename (paths without a drive letter)
basename(os, p) == SubSeq(p, LastIndex(p, PathSeps(os)) + 1, Len(p))

\* os.path.splitext: <<root, ext>>; leading dots of the last component are no extension
splitext(os, p) ==
    LET sepIndex == LastIndex(p, PathSeps(os))
        dotIndex == LastIndex(p, {"."})
    IN IF dotIndex > sepIndex /\ \E i \in (sepIndex + 1)..(dotIndex - 1) : p[i] # "."
          THEN <<SubSeq(p, 1, dotIndex - 1), SubSeq(p, dotIndex, Len(p))>>
          ELSE <<p, <<>>>>

\* ------------------------------------------------------------ JSON values
JString == [type |-> "string"]
JNumber == [type |-> "number"]
JArray(items) == [type |-> "array", items |-> items]
JObject(props) == [type |-> "object", props |-> props]

IsObjectWith(v, required) == v.type = "object" /\ required \subseteq DOMAIN v.props

IsStringArray(v) ==
    v.type = "array" /\ \A i \in 1..Len(v.items) : v.items[i].type = "string"

\* _JSON_SCHEMA.properties.grafo.items.properties.articulos.items
ValidArticulo(a) ==
    /\ IsObjectWith(a, {"titulo", "link"})
    /\ a.props.titulo.type = "string"
    /\ a.props.link.type = "string"

\* _JSON_SCHEMA.properties.grafo.items
ValidNodo(n) ==
    /\ IsObjectWith(n, {"palabra", "articulos", "relaciones"})
    /\ n.props.palabra.type = "string"
    /\ n.props.articulos.type = "array"
    /\ \A i \in 1..Len(n.props.articulos.items) : ValidArticulo(n.props.articulos.items[i])
    /\ IsStringArray(n.props.relaciones)

\* _JSON_SCHEMA.properties.reporte
ValidReporte(rep) ==
    /\ IsObjectWith(rep, {"resumen", "hallazgos"})
    /\ rep.props.resumen.type = "string"
    /\ IsStringArray(rep.props.hallazgos)

\* _JSON_SCHEMA
SchemaValid(v) ==
    /\ IsObjectWith(v, {"reporte", "grafo"})
    /\ ValidReporte(v.props.reporte)
    /\ v.props.grafo.type = "array"
    /\ \A i \in 1..Len(v.props.grafo.items) : ValidNodo(v.props.grafo.items[i])

\* ------------------------------------------- what the LLM may answer with
GoodReporte == JObject([resumen |-> JString, hallazgos |-> JArray(<<JString>>)])
GoodArticulo == JObject([titulo |-> JString, link |-> JString])
GoodNodo ==
    JObject([palabra |-> JString, articulos |-> JArray(<<GoodArticulo>>),
             relaciones |-> JArray(<<JString>>)])

AnswerFull == JObject([reporte |-> GoodReporte, grafo |-> JArray(<<GoodNodo>>)])
AnswerEmptyGrafo == JObject([reporte |-> GoodReporte, grafo |-> JArray(<<>>)])
AnswerNoGrafo == JObject([reporte |-> GoodReporte])
AnswerNoHallazgos ==
    JObject([reporte |-> JObject([resumen |-> JString]), grafo |-> JArray(<<GoodNodo>>)])
AnswerMistyped ==
    JObject([reporte |-> JObject([resumen |-> JNumber, hallazgos |-> JArray(<<JString>>)]),
             grafo |-> JArray(<<GoodNodo>>)])
AnswerBadNodo ==
    JObject([reporte |-> GoodReporte,
             grafo |-> JArray(<<JObject([palabra |-> JString,
                                         articulos |-> JArray(<<JObject([titulo |-> JString])>>)])>>)])

JsonAnswers ==
    {AnswerFull, AnswerEmptyGrafo, AnswerNoGrafo, AnswerNoHallazgos, AnswerMistyped,
     AnswerBadNodo}

\* raw text of a model response: text that is no JSON, or the text of a value
Malformed == [text |-> "malformed"]
TextOf(v) == [text |-> "json", value |-> v]
RawTexts == {Malformed} \cup {TextOf(v) : v \in JsonAnswers}

\* JsonOutputParser(): parses, validates nothing
ParseRaises(rawtext) == rawtext.text = "malformed"
json_parser(rawtext) == rawtext.value

\* ------------------------------------------------------------------ state
VARIABLES
    RAG_AGENT,            \* api.py module global: Unset, the agent or None
    store,                \* the Chroma collection 'biology': a set of records
    pc,                   \* per request: where get_report / generate stands
    query,                \* per request: the Query body
    similarity_results,   \* per request: generate's local
    context_string,       \* per request: generate's local
    raw,                  \* per request: the LLM's raw response
    json_data,            \* per request: what generate returned
    response,             \* per request: the HTTP response
    vs_calls,             \* per request: calls of vector_store.similarity_search
    llm_calls,            \* per request: calls of the LLM
    fault,                \* per request: which call raised
    os_name,              \* "nt" or "posix": which os.path the scripts run with
    docs,                 \* Procesamiento: text of each file of docs_path
    ing_pc,               \* Procesamiento: position in the script
    file_idx,             \* Procesamiento: index of file_path in txt_files
    txt_text,             \* Procesamiento: text read from the current file
    documents_to_add,     \* Procesamiento: Documents built for the current file
    uuids,                \* number of uuid4 values drawn so far
    attempts,             \* per file: times the loop body was entered in this run
    reported,             \* file paths whose failure the except clause printed
    runs,                 \* runs of Procesamiento.py so far
    csv_rows,             \* Prueba_JSON: the rows csv.DictReader yields
    row_idx,              \* Prueba_JSON: index of the next row
    metadata_map,         \* Prueba_JSON: local of load_metadata_from_csv
    map_pc,               \* Prueba_JSON: position in load_metadata_from_csv
    ARTICLE_LINK_MAP,     \* Prueba_JSON: module global
    agent,                \* Prueba_JSON: module global, or the exception that ended the script
    messages,             \* streamlit_app: st.session_state.messages
    ui_pc,                \* streamlit_app: position in the script run
    prompt,               \* streamlit_app: local of run
    semantic_agent        \* streamlit_app: st.session_state.semantic_agent

qvars == <<RAG_AGENT, pc, query, similarity_results, context_string, raw, json_data,
           response, vs_calls, llm_calls, fault>>

ivars == <<docs, ing_pc, file_idx, txt_text, documents_to_add, uuids, attempts, reported,
           runs>>

mvars == <<csv_rows, row_idx, metadata_map, map_pc, ARTICLE_LINK_MAP, agent>>

uvars == <<messages, ui_pc, prompt, semantic_agent>>

vars == <<qvars, store, os_name, ivars, mvars, uvars>>

Reqs == {1, 2}
KValues == {-1, 0} \cup (1..MaxK)
Questions == {<<"q">>}

NameDefault == <<"Documento sin nombre">>
SourceDefault == <<"Fuente Desconocida">>

StoredRecord(i) ==
    [id |-> i, page_content |-> <<"c">>,
     metadata |-> [name |-> <<"a">>, source |-> <<"d", "/", "a", ".", "t">>]]

Pending == [type |-> "pending"]
Unset == [type |-> "unset"]
BiologySemanticAgent == [type |-> "agent"]
NoResponse == [status |-> 0]

QueryInit ==
    /\ RAG_AGENT = Unset
    /\ pc = [r \in Reqs |-> "idle"]
    /\ query = [r \in Reqs |-> None]
    /\ similarity_results = [r \in Reqs |-> <<>>]
    /\ context_string = [r \in Reqs |-> <<>>]
    /\ raw = [r \in Reqs |-> None]
    /\ json_data = [r \in Reqs |-> Pending]
    /\ response = [r \in Reqs |-> NoResponse]
    /\ vs_calls = [r \in Reqs |-> 0]
    /\ llm_calls = [r \in Reqs |-> 0]
    /\ fault = [r \in Reqs |-> "none"]

\* ------------------------------------------------------------ api startup
\* api.py 37-68: the module-level try/except
Startup ==
    /\ RAG_AGENT = Unset
    /\ \/ RAG_AGENT' = BiologySemanticAgent
       \/ RAG_AGENT' = None
    /\ UNCHANGED <<store, pc, query, similarity_results, context_string, raw, json_data,
                   response, vs_calls, llm_calls, fault>>
    /\ UNCHANGED <<os_name, ivars, mvars, uvars>>

\* --------------------------------------------------------------- get_report
\* a POST /api/query_json arrives; pydantic accepts any str and any int
Receive(r) ==
    /\ RAG_AGENT # Unset
    /\ pc[r] = "idle"
    /\ \E q \in Questions, k \in KValues :
          query' = [query EXCEPT ![r] = [question |-> q, k_chunks |-> k]]
    /\ pc' = [pc EXCEPT ![r] = "agent_check"]
    /\ UNCHANGED <<RAG_AGENT, store, similarity_results, context_string, raw, json_data,
                   response, vs_calls, llm_calls, fault>>
    /\ UNCHANGED <<os_name, ivars, mvars, uvars>>

HTTPException(status_code, detail) == [status |-> status_code, detail |-> detail]

\* a handler that does not look at RAG_AGENT
AgentCheck_skipped(r) ==
    /\ pc[r] = "agent_check"
    /\ pc' = [pc EXCEPT ![r] = "search"]
    /\ UNCHANGED <<RAG_AGENT, store, query, similarity_results, context_string, raw,
                   json_data, response, vs_calls, llm_calls, fault>>
    /\ UNCHANGED <<os_name, ivars, mvars, uvars>>

\* api.py 84-85
AgentCheck(r) ==
    /\ pc[r] = "agent_check"
    /\ IF RAG_AGENT = None
          THEN /\ response' = [response EXCEPT ![r] =
                      HTTPException(500, "El backend RAG no pudo inicializarse.")]
               /\ pc' = [pc EXCEPT ![r] = "done"]
          ELSE /\ pc' = [pc EXCEPT ![r] = "search"]
               /\ UNCHANGED response
    /\ UNCHANGED <<RAG_AGENT, store, query, similarity_results, context_string, raw,
                   json_data, vs_calls, llm_calls, fault>>
    /\ UNCHANGED <<os_name, ivars, mvars, uvars>>

\* the orderings the index may hand back for k > 0: min(k, stored) distinct records
TopK(k) ==
    LET n == Min(k, Cardinality(store))
    IN {s \in [1..n -> store] : \A i, j \in 1..n : i # j => s[i] # s[j]}

\* an exception that leaves get_report: the framework answers 500
Unhandled == [status |-> 500, detail |-> "Internal Server Error"]

\* Agente_semantico.py 123: outside the try
Search(r) ==
    /\ pc[r] = "search"
    /\ vs_calls' = [vs_calls EXCEPT ![r] = @ + 1]
    /\ \/ \* embedding service or index unreachable: the call raises
          /\ fault' = [fault EXCEPT ![r] = "search"]
          /\ response' = [response EXCEPT ![r] = Unhandled]
          /\ pc' = [pc EXCEPT ![r] = "done"]
          /\ UNCHANGED similarity_results
       \/ /\ \E res \in (IF query[r].k_chunks > 0 THEN TopK(query[r].k_chunks) ELSE {<<>>}) :
                similarity_results' = [similarity_results EXCEPT ![r] = res]
          /\ pc' = [pc EXCEPT ![r] = "format"]
          /\ UNCHANGED <<fault, response>>
    /\ UNCHANGED <<RAG_AGENT, store, query, context_string, raw, json_data, llm_calls>>
    /\ UNCHANGED <<os_name, ivars, mvars, uvars>>

\* Agente_semantico.py 101-115
_format_context(documents) ==
    [i \in 1..Len(documents) |->
        [fragmento |-> i,
         nombre |-> DictGet(documents[i].metadata, "name", NameDefault),
         fuente |-> DictGet(documents[i].metadata, "source", SourceDefault),
         contenido |-> documents[i].page_content]]

\* a context kept on the agent, which every request shares
BuildPrompt_on_agent(r) ==
    /\ pc[r] = "format"
    /\ context_string' = [x \in Reqs |-> _format_context(similarity_results[r])]
    /\ pc' = [pc EXCEPT ![r] = "invoke"]
    /\ UNCHANGED <<RAG_AGENT, store, query, similarity_results, raw, json_data, response,
                   vs_calls, llm_calls, fault>>
    /\ UNCHANGED <<os_name, ivars, mvars, uvars>>

\* Agente_semantico.py 124-132
BuildPrompt(r) ==
    /\ pc[r] = "format"
    /\ context_string' = [context_string EXCEPT ![r] = _format_context(similarity_results[r])]
    /\ pc' = [pc EXCEPT ![r] = "invoke"]
    /\ UNCHANGED <<RAG_AGENT, store, query, similarity_results, raw, json_data, response,
                   vs_calls, llm_calls, fault>>
    /\ UNCHANGED <<os_name, ivars, mvars, uvars>>

\* Agente_semantico.py 135-136: generation_chain.invoke sends the prompt to the
\* provider and blocks; neither generate nor the llm of api.py 40-44 carries a timeout
InvokeLLM(r) ==
    /\ pc[r] = "invoke"
    /\ llm_calls' = [llm_calls EXCEPT ![r] = @ + 1]
    /\ pc' = [pc EXCEPT ![r] = "await"]
    /\ UNCHANGED <<RAG_AGENT, store, query, similarity_results, context_string, raw,
                   json_data, response, vs_calls, fault>>
    /\ UNCHANGED <<os_name, ivars, mvars, uvars>>

\* Agente_semantico.py 135-141: the provider answers or fails, if it ever does
LLMReturns(r) ==
    /\ pc[r] = "await"
    /\ \/ \* provider error, caught by except Exception: return None
          /\ fault' = [fault EXCEPT ![r] = "llm"]
          /\ json_data' = [json_data EXCEPT ![r] = None]
          /\ pc' = [pc EXCEPT ![r] = "respond"]
          /\ UNCHANGED raw
       \/ /\ \E t \in RawTexts : raw' = [raw EXCEPT ![r] = t]
          /\ pc' = [pc EXCEPT ![r] = "parse"]
          /\ UNCHANGED <<fault, json_data>>
    /\ UNCHANGED <<RAG_AGENT, store, query, similarity_results, context_string, response,
                   vs_calls, llm_calls>>
    /\ UNCHANGED <<os_name, ivars, mvars, uvars>>

\* what generate returns once the parser ran: Agente_semantico.py 137-141
ParseResult(rawtext) == IF ParseRaises(rawtext) THEN None ELSE json_parser(rawtext)

\* Agente_semantico.py 135-141, the | json_parser part of the chain
Parse(r) ==
    /\ pc[r] = "parse"
    /\ json_data' = [json_data EXCEPT ![r] = ParseResult(raw[r])]
    /\ fault' = [fault EXCEPT ![r] = IF ParseRaises(raw[r]) THEN "parse" ELSE @]
    /\ pc' = [pc EXCEPT ![r] = "respond"]
    /\ UNCHANGED <<RAG_AGENT, store, query, similarity_results, context_string, raw,
                   response, vs_calls, llm_calls>>
    /\ UNCHANGED <<os_name, ivars, mvars, uvars>>

\* api.py 90-94
Respond(r) ==
    /\ pc[r] = "respond"
    /\ response' = [response EXCEPT ![r] =
          IF json_data[r] = None
             THEN HTTPException(500,
                    "La generacion JSON fallo. El LLM devolvio un formato invalido.")
             ELSE [status |-> 200, body |-> json_data[r]]]
    /\ pc' = [pc EXCEPT ![r] = "done"]
    /\ UNCHANGED <<RAG_AGENT, store, query, similarity_results, context_string, raw,
                   json_data, vs_calls, llm_calls, fault>>
    /\ UNCHANGED <<os_name, ivars, mvars, uvars>>

QueryNext ==
    \/ Startup
    \/ \E r \in Reqs : Receive(r)
    \/ \E r \in Reqs : AgentCheck(r)
    \/ \E r \in Reqs : Search(r)
    \/ \E r \in Reqs : BuildPrompt(r)
    \/ \E r \in Reqs : InvokeLLM(r)
    \/ \E r \in Reqs : LLMReturns(r)
    \/ \E r \in Reqs : Parse(r)
    \/ \E r \in Reqs : Respond(r)

\* ======================================================== Procesamiento.py
\* ----------------------------------------- RecursiveCharacterTextSplitter
chunk_size == 510
chunk_overlap == 50
separators == << <<"\n">>, <<".">>, <<"\n", "\n">> >>

RECURSIVE Concat(_)
Concat(parts) == IF parts = <<>> THEN <<>> ELSE Head(parts) \o Concat(Tail(parts))

MatchesAt(text, sep, i) ==
    i + Len(sep) - 1 <= Len(text) /\ SubSeq(text, i, i + Len(sep) - 1) = sep

\* re.search(separator, text)
Contains(text, sep) == \E i \in 1..Len(text) : MatchesAt(text, sep, i)

\* start positions of the leftmost non-overlapping occurrences of sep from position from
RECURSIVE MatchStarts(_, _, _)
MatchStarts(text, sep, from) ==
    LET at == {i \in from..Len(text) : MatchesAt(text, sep, i)}
    IN IF at = {} THEN <<>>
       ELSE <<SetMin(at)>> \o MatchStarts(text, sep, SetMin(at) + Len(sep))

\* _split_text_with_regex with keep_separator=True: each separator opens the next piece
_split_text_with_regex(text, sep) ==
    LET starts == MatchStarts(text, sep, 1)
        n == Len(starts)
        first == IF n = 0 THEN text ELSE SubSeq(text, 1, starts[1] - 1)
        rest == [j \in 1..n |->
                    SubSeq(text, starts[j], IF j < n THEN starts[j + 1] - 1 ELSE Len(text))]
    IN (IF first = <<>> THEN <<>> ELSE <<first>>) \o rest

\* _join_docs with separator "" and strip_whitespace: no doc when nothing is left
_join_docs(current_doc) ==
    LET text == strip(Concat(current_doc))
    IN IF text = <<>> THEN <<>> ELSE <<text>>

\* the while loop of _merge_splits: drops leading splits, returns <<current_doc, total>>
RECURSIVE PopSplits(_, _, _, _, _)
PopSplits(current_doc, total, len, size, overlap) ==
    IF total > overlap \/ (total + len > size /\ total > 0)
       THEN PopSplits(Tail(current_doc), total - Len(Head(current_doc)), len, size, overlap)
       ELSE <<current_doc, total>>

\* _merge_splits(splits, "") from the i-th split on
RECURSIVE _merge_splits(_, _, _, _, _, _, _)
_merge_splits(splits, i, merged, current_doc, total, size, overlap) ==
    IF i > Len(splits)
       THEN merged \o _join_docs(current_doc)
       ELSE LET d == splits[i]
                flush == total + Len(d) > size /\ Len(current_doc) > 0
                kept == IF flush THEN PopSplits(current_doc, total, Len(d), size, overlap)
                                 ELSE <<current_doc, total>>
            IN _merge_splits(splits, i + 1,
                             IF flush THEN merged \o _join_docs(current_doc) ELSE merged,
                             Append(kept[1], d), kept[2] + Len(d), size, overlap)

\* _split_text(text, separators)
RECURSIVE _split_text(_, _, _, _)
RECURSIVE SplitLoop(_, _, _, _, _, _, _)
SplitLoop(splits, i, final_chunks, good_splits, new_separators, size, overlap) ==
    LET merged == IF good_splits = <<>> THEN <<>>
                  ELSE _merge_splits(good_splits, 1, <<>>, <<>>, 0, size, overlap)
    IN IF i > Len(splits)
          THEN final_chunks \o merged
          ELSE IF Len(splits[i]) < size
                  THEN SplitLoop(splits, i + 1, final_chunks, Append(good_splits, splits[i]),
                                 new_separators, size, overlap)
                  ELSE SplitLoop(splits, i + 1,
                                 final_chunks \o merged \o
                                    (IF new_separators = <<>>
                                        THEN <<splits[i]>>
                                        ELSE _split_text(splits[i], new_separators, size, overlap)),
                                 <<>>, new_separators, size, overlap)

_split_text(text, seps, size, overlap) ==
    LET found == {i \in 1..Len(seps) : Contains(text, seps[i])}
        separator == IF found = {} THEN seps[Len(seps)] ELSE seps[SetMin(found)]
        new_separators == IF found = {} THEN <<>> ELSE SubSeq(seps, SetMin(found) + 1, Len(seps))
    IN SplitLoop(_split_text_with_regex(text, separator), 1, <<>>, <<>>, new_separators,
                 size, overlap)

\* text_splitter.split_text
split_text(text) == _split_text(text, separators, chunk_size, chunk_overlap)

\* ------------------------------------------------------------- the files
Letters == <<"a", "b", "c", "d", "e">>
docs_path == <<"D">>

\* glob.glob(os.path.join(docs_path, '*.txt'))
txt_files(os) == [i \in 1..MaxFiles |-> docs_path \o <<os_sep(os), Letters[i], ".", "t">>]

Block == [i \in 1..BlockLen |-> "x"]

RECURSIVE Blocks(_)
Blocks(n) == IF n = 0 THEN <<>> ELSE IF n = 1 THEN Block ELSE Blocks(n - 1) \o <<"\n">> \o Block

\* file contents: MaxBlocks lines of BlockLen characters, empty, one short line
Texts == <<Blocks(MaxBlocks), <<>>, <<"x", ".", "y">>>>

\* the directories the script is run on again and again: every rotation of Texts
Directories ==
    {[i \in 1..MaxFiles |-> Texts[((i - 1 + shift) % Len(Texts)) + 1]] : shift \in 0..(Len(Texts) - 1)}

\* files around the chunk size: two runs of letters with or without a separator between
Run(n) == [i \in 1..n |-> "x"]
RunLengths == {0, 1, chunk_size - 1, chunk_size, chunk_size + 1}
Between == {<<>>, <<" ">>, <<".">>, <<"\n">>, <<"\n", "\n">>}
LongTexts == {Run(a) \o b \o Run(c) : a \in RunLengths, b \in Between, c \in RunLengths}

\* --------------------------------------------------------- the collection
\* an id source that repeats itself
uuid4_repeating(issued) == 1

\* uuid.uuid4(): a value no earlier call returned
uuid4(issued) == issued + 1

\* Document(id=str(uuid.uuid4()), page_content=chunk, metadata={...}) for each chunk
BuildDocuments(text_chunks, file_name, file_path, issued) ==
    [i \in 1..Len(text_chunks) |->
        [id |-> uuid4(issued + i - 1), page_content |-> text_chunks[i],
         metadata |-> [name |-> file_name, source |-> file_path]]]

\* vector_store.add_documents: upsert by id, the last document of an id wins
add_documents(collection, documents) ==
    LET ids == {documents[i].id : i \in 1..Len(documents)}
        last(id) == SetMax({i \in 1..Len(documents) : documents[i].id = id})
    IN {rec \in collection : rec.id \notin ids} \cup {documents[last(id)] : id \in ids}

\* the script names its directories with backslashes: it is run on Windows
IngestStart ==
    /\ os_name = "nt"
    /\ ing_pc = "for"
    /\ file_idx = 0
    /\ txt_text = <<>>
    /\ documents_to_add = <<>>
    /\ uuids = 0
    /\ attempts = [i \in 1..MaxFiles |-> 0]
    /\ reported = <<>>
    /\ runs = 1
    /\ store = {}

IngestInit == IngestStart /\ docs \in Directories

\* one run over a directory whose files all hold the same text around the chunk size
LongInit == IngestStart /\ \E t \in LongTexts : docs = [i \in 1..MaxFiles |-> t]

\* one run over any directory
BatchInit == IngestStart /\ docs \in [1..MaxFiles -> {Texts[t] : t \in 1..Len(Texts)}]

\* Procesamiento.py 39: the for statement takes the next file or ends the loop
ForNext ==
    /\ ing_pc = "for"
    /\ IF file_idx < Len(txt_files(os_name))
          THEN /\ file_idx' = file_idx + 1
               /\ attempts' = [attempts EXCEPT ![file_idx + 1] = @ + 1]
               /\ ing_pc' = "read"
          ELSE /\ ing_pc' = "end"
               /\ UNCHANGED <<file_idx, attempts>>
    /\ UNCHANGED <<store, os_name, docs, txt_text, documents_to_add, uuids, reported, runs>>
    /\ UNCHANGED <<qvars, mvars, uvars>>

\* Procesamiento.py 41-47: open and read, which may raise
ReadFile ==
    /\ ing_pc = "read"
    /\ \/ /\ txt_text' = docs[file_idx]
          /\ ing_pc' = "split"
       \/ /\ ing_pc' = "except"
          /\ UNCHANGED txt_text
    /\ UNCHANGED <<store, os_name, docs, file_idx, documents_to_add, uuids, attempts,
                   reported, runs>>
    /\ UNCHANGED <<qvars, mvars, uvars>>

\* Procesamiento.py 41, 50-65
SplitAndBuild ==
    /\ ing_pc = "split"
    /\ LET file_path == txt_files(os_name)[file_idx]
           file_name == splitext(os_name, basename(os_name, file_path))[1]
           text_chunks == split_text(txt_text)
       IN /\ documents_to_add' = BuildDocuments(text_chunks, file_name, file_path, uuids)
          /\ uuids' = uuids + Len(text_chunks)
    /\ ing_pc' = "add"
    /\ UNCHANGED <<store, os_name, docs, file_idx, txt_text, attempts, reported, runs>>
    /\ UNCHANGED <<qvars, mvars, uvars>>

\* Procesamiento.py 67-69: embedding or storing may raise, after any part was stored
AddDocuments ==
    /\ ing_pc = "add"
    /\ IF documents_to_add = <<>>
          THEN /\ ing_pc' = "for"
               /\ UNCHANGED store
          ELSE \/ /\ store' = add_documents(store, documents_to_add)
                  /\ ing_pc' = "for"
               \/ /\ \E n \in 0..(Len(documents_to_add) - 1) :
                        store' = add_documents(store, SubSeq(documents_to_add, 1, n))
                  /\ ing_pc' = "except"
    /\ UNCHANGED <<os_name, docs, file_idx, txt_text, documents_to_add, uuids, attempts,
                   reported, runs>>
    /\ UNCHANGED <<qvars, mvars, uvars>>

\* an except clause that leaves the loop
AfterExcept_break == "end"

\* where the except clause sends control: 'continue', the for statement
AfterExcept == "for"

\* Procesamiento.py 71-73
Except ==
    /\ ing_pc = "except"
    /\ reported' = Append(reported, txt_files(os_name)[file_idx])
    /\ ing_pc' = AfterExcept
    /\ UNCHANGED <<store, os_name, docs, file_idx, txt_text, documents_to_add, uuids,
                   attempts, runs>>
    /\ UNCHANGED <<qvars, mvars, uvars>>

\* the script is started again on the same files and the same persisted collection
RunAgain ==
    /\ ing_pc = "end"
    /\ runs < MaxRuns
    /\ runs' = runs + 1
    /\ ing_pc' = "for"
    /\ file_idx' = 0
    /\ txt_text' = <<>>
    /\ documents_to_add' = <<>>
    /\ attempts' = [i \in 1..MaxFiles |-> 0]
    /\ reported' = <<>>
    /\ UNCHANGED <<store, os_name, docs, uuids>>
    /\ UNCHANGED <<qvars, mvars, uvars>>

\* one run of the script up to line 75
BatchNext ==
    \/ ForNext
    \/ ReadFile
    \/ SplitAndBuild
    \/ AddDocuments
    \/ Except

IngestNext ==
    \/ ForNext
    \/ ReadFile
    \/ SplitAndBuild
    \/ AddDocuments
    \/ Except
    \/ RunAgain

\* ========================================================== Prueba_JSON.py
EmptyDict == <<>>

\* a dict that keeps the first value written under a key
DictSet_keep_first(d, key, value) ==
    [x \in DOMAIN d \cup {key} |-> IF x \in DOMAIN d THEN d[x] ELSE value]

\* metadata_map[key] = value
DictSet(d, key, value) == [x \in DOMAIN d \cup {key} |-> IF x = key THEN value ELSE d[x]]

\* the cells csv.DictReader may yield: a str, or None when the row is too short
TitleCells ==
    {Str(<<"a">>), Str(<<"D", "/", "a", ".", "t">>), Str(<<" ", "a", ".", "t", " ">>),
     Str(<<"D", "\\", "a">>), Str(<<"b">>), Str(<<>>), None}
LinkCells == {Str(<<"u">>), Str(<<"v">>), Str(<<" ", "u", " ">>), Str(<<" ">>), None}
CsvRows == [title : TitleCells, link : LinkCells]

\* Prueba_JSON.py 35-41: strip, basename, extension off
title_key_clean(os, title) == splitext(os, basename(os, strip(title)))[1]

MapInit ==
    /\ os_name \in {"nt", "posix"}
    /\ csv_rows \in UNION {[1..n -> CsvRows] : n \in 0..MaxRows}
    /\ row_idx = 1
    /\ metadata_map = EmptyDict
    /\ map_pc = "open"
    /\ ARTICLE_LINK_MAP = Unset
    /\ agent = Unset

\* Prueba_JSON.py 27-32 and 50-52
OpenCsv ==
    /\ map_pc = "open"
    /\ \/ /\ map_pc' = "rows"
          /\ UNCHANGED ARTICLE_LINK_MAP
       \/ \* FileNotFoundError
          /\ map_pc' = "not_found"
          /\ ARTICLE_LINK_MAP' = EmptyDict
    /\ UNCHANGED <<csv_rows, row_idx, metadata_map, agent>>
    /\ UNCHANGED <<qvars, store, os_name, ivars, uvars>>

\* Prueba_JSON.py 33-47 and 53-55: one row; None.strip() raises AttributeError
ReadRow ==
    /\ map_pc = "rows"
    /\ row_idx <= Len(csv_rows)
    /\ LET row == csv_rows[row_idx]
       IN IF row.title = None \/ row.link = None
             THEN /\ map_pc' = "error"
                  /\ ARTICLE_LINK_MAP' = EmptyDict
                  /\ UNCHANGED <<row_idx, metadata_map>>
             ELSE LET key == title_key_clean(os_name, row.title.chars)
                      link_value == strip(row.link.chars)
                  IN /\ metadata_map' = IF key # <<>> /\ link_value # <<>>
                                           THEN DictSet(metadata_map, key, link_value)
                                           ELSE metadata_map
                     /\ row_idx' = row_idx + 1
                     /\ UNCHANGED <<map_pc, ARTICLE_LINK_MAP>>
    /\ UNCHANGED <<csv_rows, agent>>
    /\ UNCHANGED <<qvars, store, os_name, ivars, uvars>>

\* Prueba_JSON.py 53-55: the reader itself raises (csv.Error, UnicodeDecodeError)
ReaderRaises ==
    /\ map_pc = "rows"
    /\ map_pc' = "error"
    /\ ARTICLE_LINK_MAP' = EmptyDict
    /\ UNCHANGED <<csv_rows, row_idx, metadata_map, agent>>
    /\ UNCHANGED <<qvars, store, os_name, ivars, uvars>>

\* Prueba_JSON.py 48-49 and 57
ReturnMap ==
    /\ map_pc = "rows"
    /\ row_idx > Len(csv_rows)
    /\ map_pc' = "done"
    /\ ARTICLE_LINK_MAP' = metadata_map
    /\ UNCHANGED <<csv_rows, row_idx, metadata_map, agent>>
    /\ UNCHANGED <<qvars, store, os_name, ivars, uvars>>

\* Agente_semantico.py 85: the parameters __init__ takes after self
InitParameters == <<"vector_store", "llm">>

ValueError == [type |-> "ValueError"]
TypeError == [type |-> "TypeError"]

\* Agente_semantico.py 84-98: BiologySemanticAgent(*args, **kwargs). A keyword that
\* names no parameter, or one that a positional argument already bound, is a TypeError.
NewBiologySemanticAgent(nargs, kwargs) ==
    LET free == {InitParameters[i] : i \in (nargs + 1)..Len(InitParameters)}
    IN IF nargs <= Len(InitParameters) /\ kwargs = free
          THEN BiologySemanticAgent
          ELSE TypeError

\* Prueba_JSON.py 64-102: from the api key to the agent
CreateAgent ==
    /\ map_pc \in {"done", "not_found", "error"}
    /\ agent = Unset
    /\ \/ \* 65-70: GEMINI_API_KEY is not set
          agent' = ValueError
       \/ \* 98-102: two positional arguments and article_link_map=ARTICLE_LINK_MAP
          agent' = NewBiologySemanticAgent(2, {"article_link_map"})
    /\ UNCHANGED <<csv_rows, row_idx, metadata_map, map_pc, ARTICLE_LINK_MAP>>
    /\ UNCHANGED <<qvars, store, os_name, ivars, uvars>>

MapNext ==
    \/ OpenCsv
    \/ ReadRow
    \/ ReaderRaises
    \/ ReturnMap
    \/ CreateAgent

\* ======================================================== streamlit_app.py
HUMAN == "HUMAN"
AI == "AI"

\* what st.chat_input hands back when the user submitted something
Prompts == {Str(<<"p">>), Str(<<"q">>)}

\* what st.write_stream hands back
ChatResponses == {Str(<<"a">>)}

\* Agente_semantico.py 84-141: the attributes of the class that is not commented out
Methods == {"__init__", "_format_context", "generate"}

\* streamlit_app.py 124-126, 25-59 and 112-119: one run of the script up to the if
RunScript ==
    /\ ui_pc = "idle"
    /\ Len(messages) < MaxMessages
    /\ semantic_agent' = IF semantic_agent = Unset
                            THEN NewBiologySemanticAgent(2, {})
                            ELSE semantic_agent
    /\ \E p \in Prompts \cup {None} :
          /\ prompt' = p
          /\ ui_pc' = IF p = None THEN "idle" ELSE "human"
    /\ UNCHANGED messages
    /\ UNCHANGED <<qvars, store, os_name, ivars, mvars>>

\* streamlit_app.py 86-94
handle_human_message ==
    /\ ui_pc = "human"
    /\ messages' = Append(messages, [type |-> HUMAN, content |-> prompt])
    /\ ui_pc' = "ai"
    /\ UNCHANGED <<prompt, semantic_agent>>
    /\ UNCHANGED <<qvars, store, os_name, ivars, mvars>>

\* streamlit_app.py 96-110: an attribute the agent does not have raises
\* AttributeError, which ends the run of the script
handle_ai_message ==
    /\ ui_pc = "ai"
    /\ IF "generate_stream" \in Methods
          THEN \E chat_response \in ChatResponses :
                  messages' = Append(messages, [type |-> AI, content |-> chat_response])
          ELSE UNCHANGED messages
    /\ ui_pc' = "idle"
    /\ prompt' = None
    /\ UNCHANGED semantic_agent
    /\ UNCHANGED <<qvars, store, os_name, ivars, mvars>>

UiNext ==
    \/ RunScript
    \/ handle_human_message
    \/ handle_ai_message

\* ========================================================== specifications
IngestIdle ==
    /\ docs = [i \in 1..MaxFiles |-> <<>>]
    /\ ing_pc = "idle"
    /\ file_idx = 0
    /\ txt_text = <<>>
    /\ documents_to_add = <<>>
    /\ uuids = 0
    /\ attempts = [i \in 1..MaxFiles |-> 0]
    /\ reported = <<>>
    /\ runs = 0

MapIdle ==
    /\ csv_rows = <<>>
    /\ row_idx = 0
    /\ metadata_map = <<>>
    /\ map_pc = "idle"
    /\ ARTICLE_LINK_MAP = Unset
    /\ agent = Unset

UiIdle ==
    /\ messages = <<>>
    /\ ui_pc = "idle"
    /\ prompt = None
    /\ semantic_agent = Unset

\* the query service over a collection that ingestion left behind
Init ==
    /\ QueryInit
    /\ \E n \in 0..MaxStored : store = {StoredRecord(i) : i \in 1..n}
    /\ os_name = "posix"
    /\ IngestIdle
    /\ MapIdle
    /\ UiIdle

Next == QueryNext

Spec == Init /\ [][Next]_vars

\* the query service whose worker threads keep running: every step of get_report
\* and generate that is the program's own is taken. When requests arrive and whether
\* the provider ever answers a prompt is not the program's to decide.
FairSpec ==
    /\ Init
    /\ [][Next]_vars
    /\ \A r \in Reqs :
          /\ WF_vars(AgentCheck(r))
          /\ WF_vars(Search(r))
          /\ WF_vars(BuildPrompt(r))
          /\ WF_vars(InvokeLLM(r))
          /\ WF_vars(Parse(r))
          /\ WF_vars(Respond(r))

\* runs of Procesamiento.py
IngestSpecInit == IngestInit /\ QueryInit /\ MapIdle /\ UiIdle

IngestSpec == IngestSpecInit /\ [][IngestNext]_vars

\* one run of Procesamiento.py. The interpreter keeps executing the script: every
\* call returns or raises. SplitAndBuild is enabled exactly when ing_pc = "split"
\* and always changes ing_pc, so its weak fairness is written with that predicate.
FairIngestInit == BatchInit /\ QueryInit /\ MapIdle /\ UiIdle

FairIngestSpec ==
    /\ FairIngestInit
    /\ [][BatchNext]_vars
    /\ WF_vars(ForNext)
    /\ WF_vars(ReadFile)
    /\ ([]<>(ing_pc # "split") \/ []<><<SplitAndBuild>>_vars)
    /\ WF_vars(AddDocuments)
    /\ WF_vars(Except)

\* one run of Procesamiento.py over files around the chunk size
ChunkSpecInit == LongInit /\ QueryInit /\ MapIdle /\ UiIdle

ChunkSpec == ChunkSpecInit /\ [][BatchNext]_vars

\* the chat page of one browser session, run after run
UiSpecInit == QueryInit /\ IngestIdle /\ MapIdle /\ UiIdle /\ store = {} /\ os_name = "posix"

UiSpec == UiSpecInit /\ [][UiNext]_vars

\* load_metadata_from_csv on any csv
MapSpecInit == MapInit /\ QueryInit /\ IngestIdle /\ UiIdle /\ store = {}

MapSpec == MapSpecInit /\ [][MapNext]_vars

\* ================================================================== claims
\* generate(question, k) of request r, k > 0, got zero chunks back from the index
EmptyRetrieval(r) ==
    /\ vs_calls[r] > 0
    /\ query[r].k_chunks > 0
    /\ fault[r] # "search"
    /\ pc[r] # "search"
    /\ similarity_results[r] = <<>>

\* generate of request r has returned
Returned(r) == json_data[r] # Pending

\* the model answered request r and the answer fails parsing or the schema
InvalidAnswer(r) ==
    raw[r] # None /\ (ParseRaises(raw[r]) \/ ~SchemaValid(json_parser(raw[r])))

\* C1: a generate call whose retrieval returns zero chunks never invokes the LLM
\* and ends in a failure, never in an answer.
C1_EmptyContextNeverPrompts ==
    \A r \in Reqs :
        EmptyRetrieval(r) => llm_calls[r] = 0 /\ (Returned(r) => json_data[r] = None)

\* C2: every answer generate returns, and every body sent with status 200, is
\* valid against _JSON_SCHEMA.
C2_AnswersAreSchemaValid ==
    \A r \in Reqs :
        /\ (Returned(r) /\ json_data[r] # None) => SchemaValid(json_data[r])
        /\ response[r].status = 200 => SchemaValid(response[r].body)

\* C3: when the model's response fails parsing or schema validation, generate
\* returns a typed failure that carries the raw text and the validation error.
C3_InvalidCarriesRawText ==
    \A r \in Reqs :
        (Returned(r) /\ InvalidAnswer(r)) =>
            /\ json_data[r].type = "failure"
            /\ json_data[r].raw_text = raw[r]
            /\ "error" \in DOMAIN json_data[r]

\* C4: a provider failure and an invalid model response never make generate
\* return the same value.
C4_ModelFailureDistinctFromInvalid ==
    \A r1, r2 \in Reqs :
        (Returned(r1) /\ fault[r1] = "llm" /\ Returned(r2) /\ InvalidAnswer(r2)) =>
            json_data[r1] # json_data[r2]

\* why a finished request failed, in the order generate meets the causes
Cause(r) ==
    IF EmptyRetrieval(r) THEN "no-context"
    ELSE IF fault[r] = "llm" THEN "model-failure"
    ELSE IF InvalidAnswer(r) THEN "invalid-schema"
    ELSE "none"

\* C5: the endpoint answers no-context, model-failure and invalid-schema with
\* non-2xx status codes that differ from cause to cause.
C5_DistinctStatusPerCause ==
    \A r1, r2 \in Reqs :
        (pc[r1] = "done" /\ pc[r2] = "done" /\ Cause(r1) # "none" /\ Cause(r2) # "none") =>
            /\ response[r1].status \notin 200..299
            /\ Cause(r1) # Cause(r2) => response[r1].status # response[r2].status

\* C6: every generate call that ended, ended by returning a value: no
\* collaborator's exception leaves generate.
C6_GenerateNeverRaises ==
    \A r \in Reqs : (pc[r] = "done" /\ vs_calls[r] > 0) => Returned(r)

\* C7: a request with k_chunks <= 0 is rejected before any retrieval and never
\* answered with 200, and an accepted k bounds the length of the retrieval result.
C7_NonPositiveKRejected ==
    \A r \in Reqs :
        query[r] # None =>
            /\ query[r].k_chunks <= 0 =>
                  vs_calls[r] = 0 /\ llm_calls[r] = 0 /\ response[r].status # 200
            /\ query[r].k_chunks > 0 => Len(similarity_results[r]) <= query[r].k_chunks

\* C8: a file whose processing raises is reported and the loop goes on: at the
\* end of the loop every file was attempted exactly once, no file is attempted
\* twice, a raised exception leads to its report, and the loop always reaches
\* its end.
C8_BatchIsolation ==
    /\ [](ing_pc = "end" => \A i \in 1..MaxFiles : attempts[i] = 1)
    /\ [](\A i \in 1..MaxFiles : attempts[i] <= 1)
    /\ [](ing_pc = "end" =>
            \A j \in 1..Len(reported) : \E i \in 1..MaxFiles : reported[j] = txt_files(os_name)[i])
    /\ (ing_pc = "except") ~> (ing_pc \in {"read", "end"} /\ reported # <<>>)
    /\ (ing_pc \in {"for", "read", "split", "add", "except"}) ~> (ing_pc = "end")

\* the first file failed and the last file was still ingested in the same run
C8_Witness ==
    /\ ing_pc = "end"
    /\ runs = 1
    /\ reported # <<>>
    /\ reported[1] = txt_files(os_name)[1]
    /\ \E rec \in store : rec.metadata.source = txt_files(os_name)[MaxFiles]

\* C9: no step overwrites or removes a stored record, stored ids stay pairwise
\* distinct, and a file whose text splits into n chunks adds exactly n records
\* each time it is ingested.
C9_FreshIdsNoOverwrite ==
    [][/\ store \subseteq store'
       /\ \A a, b \in store' : a.id = b.id => a = b
       /\ (ing_pc = "add" /\ ing_pc' = "for") =>
             Cardinality(store') = Cardinality(store) + Len(split_text(docs[file_idx]))]_vars

\* a multi-chunk file was ingested in two runs and is stored twice
C9_Witness ==
    /\ ing_pc = "end"
    /\ runs = 2
    /\ \E i \in 1..MaxFiles :
          /\ Len(split_text(docs[i])) > 1
          /\ Cardinality({rec \in store : rec.metadata.source = txt_files(os_name)[i]})
                = 2 * Len(split_text(docs[i]))

\* the normalized title of the i-th row
KeyOf(i) == title_key_clean(os_name, csv_rows[i].title.chars)
LinkOf(i) == strip(csv_rows[i].link.chars)

\* C10 as stated: the link under a key is the link of the last row whose title
\* normalizes to that key.
C10_LastRowWins ==
    map_pc = "done" =>
        \A key \in DOMAIN ARTICLE_LINK_MAP :
            ARTICLE_LINK_MAP[key] =
                LinkOf(SetMax({i \in 1..Len(csv_rows) : KeyOf(i) = key}))

\* the rows that write the map: non-empty key and non-blank link
Linked == {i \in 1..Len(csv_rows) : KeyOf(i) # <<>> /\ LinkOf(i) # <<>>}

\* C10 amended: the keys are the non-empty normalized titles of the rows with a
\* non-blank link, the link under a key is the stripped link of the last such
\* row, and a load that raises returns the empty map.
C10_LastLinkedRowWins ==
    /\ map_pc = "done" =>
          /\ DOMAIN ARTICLE_LINK_MAP = {KeyOf(i) : i \in Linked}
          /\ \A key \in DOMAIN ARTICLE_LINK_MAP :
                ARTICLE_LINK_MAP[key] = LinkOf(SetMax({i \in Linked : KeyOf(i) = key}))
    /\ map_pc \in {"error", "not_found"} => ARTICLE_LINK_MAP = EmptyDict

\* two rows with the same normalized title and different links: the later one is kept
C10_Witness ==
    /\ map_pc = "done"
    /\ \E i, j \in Linked :
          /\ i < j
          /\ KeyOf(i) = KeyOf(j)
          /\ csv_rows[i].title # csv_rows[j].title
          /\ LinkOf(i) # LinkOf(j)
          /\ ARTICLE_LINK_MAP[KeyOf(j)] = LinkOf(j)

\* ---------------------------------------------------------------------- C11
\* C11: once the caller has built its agent with the citation map, an agent exists
\* (building it raised nothing), and the link of every record that agent writes into
\* the context is the result of resolving the record's title through the citation map:
\* the mapped URL if the normalized title is a key, the sentinel "unknown" otherwise.
C11_ContextLinksResolved ==
    LET resolve(map, raw_title) ==
            LET key == title_key_clean(os_name, raw_title)
            IN IF key \in DOMAIN map THEN map[key] ELSE <<"unknown">>
        assembled == _format_context(<<StoredRecord(1)>>)
    IN (agent # Unset /\ agent # ValueError) =>
          /\ agent = BiologySemanticAgent
          /\ \A i \in 1..Len(assembled) :
                assembled[i].fuente = resolve(ARTICLE_LINK_MAP, assembled[i].nombre)

\* ---------------------------------------------------------------------- C12
\* C12: every chunk the splitter produced, in the documents built for a file and in
\* the collection, is at most chunk_size characters long, whatever the file holds.
C12_ChunksWithinMaxSize ==
    /\ \A i \in 1..Len(documents_to_add) : Len(documents_to_add[i].page_content) <= chunk_size
    /\ \A rec \in store : Len(rec.page_content) <= chunk_size

\* ---------------------------------------------------------------------- C13
\* C13: a step of one request writes neither the shared agent, the collection nor
\* the citation map, and leaves everything the other request holds as it was; the
\* context a request sends is built from its own retrieval, and the response it
\* gets is the one its own retrieval and model outcome determine.
C13_QueriesIndependent ==
    [][\A r \in Reqs :
          LET held(x) == <<pc[x], query[x], similarity_results[x], context_string[x], raw[x],
                          json_data[x], response[x], vs_calls[x], llm_calls[x], fault[x]>>
              alone == IF RAG_AGENT = None
                          THEN HTTPException(500, "El backend RAG no pudo inicializarse.")
                       ELSE IF fault[r] = "search" THEN Unhandled
                       ELSE IF fault[r] = "llm" \/ ParseRaises(raw[r])
                          THEN HTTPException(500,
                                 "La generacion JSON fallo. El LLM devolvio un formato invalido.")
                       ELSE [status |-> 200, body |-> json_parser(raw[r])]
          IN pc'[r] # pc[r] =>
                /\ RAG_AGENT' = RAG_AGENT
                /\ store' = store
                /\ ARTICLE_LINK_MAP' = ARTICLE_LINK_MAP
                /\ \A x \in Reqs \ {r} : held(x)' = held(x)
                /\ pc'[r] \in {"invoke", "await", "parse", "respond"} =>
                      context_string'[r] = _format_context(similarity_results'[r])
                /\ pc'[r] = "done" => response'[r] = alone'
      ]_vars

\* two requests wait for the model at the same time, each with its own context
C13_Witness ==
    /\ pc[1] = "await"
    /\ pc[2] = "await"
    /\ context_string[1] # context_string[2]

\* ---------------------------------------------------------------------- C14
\* C14: every generate call that sent its prompt to the model comes back: a model
\* that does not answer is cut off and the call returns the model failure.
C14_GenerateTerminates ==
    \A r \in Reqs : (pc[r] = "await") ~> Returned(r)

\* ---------------------------------------------------------------------- C15
\* C15: once startup has set RAG_AGENT it is never assigned again. If it is None,
\* no request ever calls retrieval or the model and every answered request got 500
\* "El backend RAG no pudo inicializarse."; if it is the agent, no request gets
\* that response.
C15_InitFailureAnswered ==
    [][LET failed == HTTPException(500, "El backend RAG no pudo inicializarse.")
       IN /\ RAG_AGENT # Unset => RAG_AGENT' = RAG_AGENT
          /\ RAG_AGENT' = None =>
                \A r \in Reqs :
                   /\ vs_calls'[r] = 0
                   /\ llm_calls'[r] = 0
                   /\ pc'[r] = "done" => response'[r] = failed
          /\ RAG_AGENT' = BiologySemanticAgent => \A r \in Reqs : response'[r] # failed
      ]_vars

\* startup failed and both requests were answered
C15_Witness ==
    /\ RAG_AGENT = None
    /\ \A r \in Reqs : pc[r] = "done" /\ response[r].status = 500

\* ---------------------------------------------------------------------- C16
\* C16: between two runs of the chat page a history that holds anything is HUMAN,
\* AI, HUMAN, AI, ...: every submitted prompt added its HUMAN message and the AI
\* message answering it,
\* so the history never ends with a HUMAN message, and the method the page calls
\* on the agent is one the agent has.
C16_HistoryAlternates ==
    (ui_pc = "idle" /\ messages # <<>>) =>
        /\ Len(messages) % 2 = 0
        /\ \A i \in 1..Len(messages) : messages[i].type = IF i % 2 = 1 THEN HUMAN ELSE AI
        /\ "generate_stream" \in Methods

====
